---- MODULE Spec2Model ----
(***************************************************************************)
(* Weather Data System (backend/main.py): the in-memory record store, the  *)
(* POST /weather and GET /weather/{id} handlers, and the /ws summary       *)
(* channel, as they run on uvicorn's single event loop.                    *)
(***************************************************************************)
EXTENDS Integers, Sequences, FiniteSets, TLC

\* ---------------------------------------------------------------- bounds
MaxEvents == 4   \* client events (HTTP requests; /ws opens, messages, closes) in one behaviour
MaxConns  == 2   \* /ws connections in one behaviour

Conns == 1..MaxConns

\* The event loop runs one task at a time: a POST handler with its request,
\* or a /ws session.
NoTask == [kind |-> "none"]
PostTask(request) == [kind |-> "post", request |-> request]
ConnTask(c) == [kind |-> "ws", n |-> c]

\* ------------------------------------------------------- Python values
PyNone    == [t |-> "None"]
PyStr(s)  == [t |-> "str", s |-> s]
PyList    == [t |-> "list"]              \* a non-empty JSON array
PyDict(d) == [t |-> "dict", d |-> d]     \* d: a function on string keys
EmptyDict == [k \in {} |-> PyNone]

\* Python truthiness, as `if not api_key` uses it.
Truthy(v) ==
    CASE v.t = "None" -> FALSE
      [] v.t = "str"  -> v.s # ""
      [] v.t = "list" -> TRUE
      [] v.t = "dict" -> DOMAIN v.d # {}

\* dict.get(key, default)
DictGet(d, key, default) == IF key \in DOMAIN d THEN d[key] ELSE default

\* Only hashable values can be tested with `in` against a dict.
Hashable(v) == v.t \in {"None", "str"}

\* ------------------------------------------------- identifiers, inputs
\* The strings str(uuid.uuid4()) produces in one behaviour, named in the
\* order they are drawn.
UUIDNames == <<"u1", "u2", "u3", "u4", "u5", "u6">>
UUIDs     == {UUIDNames[i] : i \in 1..MaxEvents}
NoSuchId  == "nope"
IdStrings == UUIDs \cup {NoSuchId}

\* WeatherRequest bodies (date, location, notes).
Requests ==
    { [date |-> "2024-06-01", location |-> "Paris",    notes |-> "picnic"],
      [date |-> "2024-06-02", location |-> "Atlantis", notes |-> ""] }

Timestamps == {"2024-06-01T12:00:00"}

\* os.environ as far as the handler reads it.
Environments ==
    { EmptyDict,
      [k \in {"WEATHERSTACK_API_KEY"} |-> ""],
      [k \in {"WEATHERSTACK_API_KEY"} |-> "wskey"] }

\* os.getenv(name)
getenv(env, name) == IF name \in DOMAIN env THEN PyStr(env[name]) ELSE PyNone

\* ------------------------------------------------- exceptions
\* Every class an except clause of the handlers can meet, with its bases.
Bases(cls) ==
    CASE cls = "ReadTimeout"     -> {"ReadTimeout", "Timeout", "RequestException", "Exception"}
      [] cls = "ConnectTimeout"  -> {"ConnectTimeout", "ConnectionError", "Timeout",
                                     "RequestException", "Exception"}
      [] cls = "ConnectionError" -> {"ConnectionError", "RequestException", "Exception"}
      [] cls = "HTTPError"       -> {"HTTPError", "RequestException", "Exception"}
      [] cls = "JSONDecodeError" -> {"JSONDecodeError", "RequestException", "Exception"}
      [] cls = "HTTPException"   -> {"HTTPException", "Exception"}
      [] OTHER                   -> {cls, "Exception"}

IsInstance(e, cls) == cls \in Bases(e.cls)

StatusStr(n) ==
    CASE n = 400 -> "400" [] n = 404 -> "404" [] n = 408 -> "408"
      [] n = 500 -> "500" [] n = 503 -> "503" [] OTHER -> "200"

HTTPException(status, detail) ==
    [cls |-> "HTTPException", status_code |-> status, detail |-> detail]

\* str(e): for an HTTPException "<status_code>: <detail>" (Starlette's
\* __str__), else the exception's message.
StrOf(e) ==
    IF e.cls = "HTTPException"
    THEN <<StatusStr(e.status_code), ": ">> \o e.detail
    ELSE e.msg

Raise(e)  == [kind |-> "raise", exc |-> e]
Return(v) == [kind |-> "return", value |-> v]

\* ------------------------------------------------- the weather provider
\* What requests.get(..., timeout=10) can do: raise, or give a response
\* with a status code and a body that is JSON or not.
ProviderBodies ==
    { [current  |-> [temperature |-> 70, description |-> "Sunny"],
       location |-> [name |-> "Paris", country |-> "France"]],
      [error |-> [code |-> 615, info |-> "Request failed."]],
      [error |-> [code |-> 101, info |-> "Invalid access key."]] }

ProviderOutcomes ==
    { [kind |-> "raise", cls |-> c] :
          c \in {"ReadTimeout", "ConnectTimeout", "ConnectionError"} }
    \cup { [kind |-> "response", status_code |-> 503, json_ok |-> TRUE, body |-> EmptyDict] }
    \cup { [kind |-> "response", status_code |-> 200, json_ok |-> TRUE, body |-> b] :
          b \in ProviderBodies }

VARIABLES
    weather_storage,      \* weather_id -> stored record
    environ,              \* process environment
    running,              \* the task inside a blocking provider call, or NoTask
    events,               \* client events so far
    http_log,             \* the last HTTP request answered and its response
    issued,               \* id -> request, for every POST answered with an id
    active_connections,   \* ConnectionManager.active_connections
    session,              \* per connection: "new", "recv", "calling", "closed", "crashed"
    inbox,                \* per connection: events the client sent, not yet received
    arrived,              \* per connection: number of messages the client has sent
    cur,                  \* per connection: the message whose summary call is running
    done,                 \* per connection: arrival numbers of the messages handled, in order
    last,                 \* per connection: how the last message was handled
    sent                  \* per connection: the messages passed to send_text, in order,
                          \* each with the arrival number of the message it answers

http_vars == <<http_log, issued>>
ws_vars   == <<active_connections, session, inbox, arrived, cur, done, last, sent>>
vars == <<weather_storage, environ, running, events, http_vars, ws_vars>>

\* ------------------------------------------------- record store
RecordFields ==
    {"id", "date", "location", "notes", "weather_data", "location_info", "created_at"}

\* str(uuid.uuid4()): a 128-bit random identifier, taken never to repeat;
\* the k-th one drawn is UUIDNames[k].
uuid4(drawn) == UUIDNames[drawn + 1]

\* weather_storage[weather_id] = record, with every other record dropped
StorePut_Reset(storage, weather_id, record) ==
    [k \in {weather_id} |-> record]

\* weather_storage[weather_id] = record
StorePut(storage, weather_id, record) ==
    [k \in DOMAIN storage \cup {weather_id} |->
        IF k = weather_id THEN record ELSE storage[k]]

\* The dict stored for one request.
BuildRecord(request, body, weather_id, now) ==
    [id            |-> weather_id,
     date          |-> request.date,
     location      |-> request.location,
     notes         |-> request.notes,
     weather_data  |-> DictGet(body, "current", EmptyDict),
     location_info |-> DictGet(body, "location", EmptyDict),
     created_at    |-> now]

\* ------------------------------------------------- POST /weather
ConfigErrorDetail == <<"WeatherStack API key not configured.">>

\* requests.get(...), response.raise_for_status(), response.json()
ProviderCall(outcome) ==
    IF outcome.kind = "raise"
    THEN Raise([cls |-> outcome.cls, msg |-> <<outcome.cls>>])
    ELSE IF outcome.status_code >= 400
    THEN Raise([cls |-> "HTTPError", msg |-> <<StatusStr(outcome.status_code), " Server Error">>])
    ELSE IF ~outcome.json_ok
    THEN Raise([cls |-> "JSONDecodeError", msg |-> <<"Expecting value">>])
    ELSE Return(outcome.body)

\* The check for a provider-reported error in the decoded body.
ApiError(request, body) ==
    IF "error" \in DOMAIN body
    THEN LET error_info == body["error"] IN
         IF DictGet(error_info, "code", 0) = 615
         THEN Raise(HTTPException(400,
                  <<"Location '", request.location,
                    "' not found. Please check the spelling and try again.">>))
         ELSE Raise(HTTPException(400,
                  <<"Weather API error: ", DictGet(error_info, "info", "Unknown error")>>))
    ELSE Return(body)

\* The try body with the record stored before the provider's error is checked.
TryBody_StoreFirst(storage, request, outcome, weather_id, now) ==
    LET called == ProviderCall(outcome) IN
    IF called.kind = "raise"
    THEN [result |-> called, storage |-> storage]
    ELSE LET checked == ApiError(request, called.value)
             stored  == StorePut(storage, weather_id,
                            BuildRecord(request, called.value, weather_id, now))
         IN  IF checked.kind = "raise"
             THEN [result |-> checked, storage |-> stored]
             ELSE [result |-> Return([id |-> weather_id]), storage |-> stored]

\* The try body of create_weather_request from the provider call on: what it
\* returns or raises, and the store it leaves.
TryBody(storage, request, outcome, weather_id, now) ==
    LET called == ProviderCall(outcome) IN
    IF called.kind = "raise"
    THEN [result |-> called, storage |-> storage]
    ELSE LET checked == ApiError(request, called.value) IN
         IF checked.kind = "raise"
         THEN [result |-> checked, storage |-> storage]
         ELSE [result  |-> Return([id |-> weather_id]),
               storage |-> StorePut(storage, weather_id,
                               BuildRecord(request, called.value, weather_id, now))]

\* The except clauses with RequestException tested before Timeout.
ExceptClauses_Swapped(e) ==
    IF IsInstance(e, "RequestException")
    THEN HTTPException(500, <<"Error connecting to weather service: ">> \o StrOf(e))
    ELSE IF IsInstance(e, "Timeout")
    THEN HTTPException(408, <<"Weather API request timed out. Please try again.">>)
    ELSE HTTPException(500, <<"Unexpected error: ">> \o StrOf(e))

\* The except clauses of create_weather_request, tried in order; each raises
\* the HTTPException the caller is answered with.
ExceptClauses(e) ==
    IF IsInstance(e, "Timeout")
    THEN HTTPException(408, <<"Weather API request timed out. Please try again.">>)
    ELSE IF IsInstance(e, "RequestException")
    THEN HTTPException(500, <<"Error connecting to weather service: ">> \o StrOf(e))
    ELSE HTTPException(500, <<"Unexpected error: ">> \o StrOf(e))

\* The HTTP response the framework sends for a handler's result.
Response(result) ==
    IF result.kind = "raise"
    THEN [status_code |-> result.exc.status_code, detail |-> result.exc.detail]
    ELSE [status_code |-> 200, body |-> result.value]

\* The handler's result for what its try block did.
Handled(result) ==
    IF result.kind = "raise" THEN Raise(ExceptClauses(result.exc)) ELSE result

\* ------------------------------------------------- GET /weather/{id}
get_weather_data(storage, weather_id) ==
    IF weather_id \notin DOMAIN storage
    THEN Raise(HTTPException(404, <<"Weather data not found">>))
    ELSE Return(storage[weather_id])

\* ------------------------------------------------- /ws: messages
GenerateSummary == PyStr("generate_summary")

\* What a client can put on the wire: text that is no JSON, JSON that is no
\* object, and objects with and without the fields the handler reads.
ClientData ==
    { [form |-> "garbage"],
      [form |-> "json", value |-> PyList],
      [form |-> "json", value |-> PyDict([type |-> PyStr("ping")])],
      [form |-> "json", value |-> PyDict([type |-> GenerateSummary,
                                          weather_id |-> PyStr(NoSuchId)])],
      [form |-> "json", value |-> PyDict([type |-> GenerateSummary, api_key |-> PyStr("k"),
                                          weather_id |-> PyList])] }
    \cup { [form |-> "json", value |-> PyDict([type |-> GenerateSummary, api_key |-> PyStr("k"),
                                               weather_id |-> PyStr(id)])] :
              id \in {NoSuchId, UUIDNames[1]} }

DisconnectEvent == [n |-> 0, data |-> [form |-> "disconnect"]]
NoItem          == [n |-> 0, data |-> [form |-> "none"]]
NoHandling      == [n |-> 0]

\* json.dumps(obj) and json.loads(data)
json_dumps(obj) == [form |-> "json", value |-> obj]
json_loads(data) ==
    IF data.form = "json"
    THEN Return(data.value)
    ELSE Raise([cls |-> "JSONDecodeError", msg |-> <<"Expecting value">>])

\* ------------------------------------------------- /ws: text generation
\* Texts the provider can return: empty, blank, and padded words.
Texts == { <<>>, <<" ">>, <<" ", "Sunny", " ">> }

\* What configure / GenerativeModel / generate_content / response.text can
\* do: give a text, or raise with a provider message.
GenOutcomes ==
    { [kind |-> "text", text |-> t] : t \in Texts }
    \cup { [kind |-> "raise", msg |-> <<"API key not valid.">>] }
NoOutcome == [kind |-> "none"]

RECURSIVE lstrip(_)
lstrip(t) == IF t # <<>> /\ Head(t) = " " THEN lstrip(Tail(t)) ELSE t
RECURSIVE rstrip(_)
rstrip(t) ==
    IF t # <<>> /\ t[Len(t)] = " " THEN rstrip(SubSeq(t, 1, Len(t) - 1)) ELSE t
\* str.strip()
strip(t) == rstrip(lstrip(t))

FallbackSummary == <<"Unable to generate weather summary at this time.">>
ErrorPrefix     == <<"Error generating summary: ">>

\* generate_weather_summary without the fallback for an empty text.
generate_weather_summary_NoFallback(outcome) ==
    IF outcome.kind = "raise"
    THEN Raise([cls |-> "Exception", msg |-> ErrorPrefix \o outcome.msg])
    ELSE Return(strip(outcome.text))

\* generate_weather_summary raising without the cause's text.
generate_weather_summary_DropsCause(outcome) ==
    IF outcome.kind = "raise"
    THEN Raise([cls |-> "Exception", msg |-> ErrorPrefix])
    ELSE IF outcome.text # <<>>
    THEN Return(strip(outcome.text))
    ELSE Return(FallbackSummary)

\* generate_weather_summary(weather_data, api_key), given what the provider
\* does: anything raised inside is re-raised as Exception with a prefix.
generate_weather_summary(outcome) ==
    IF outcome.kind = "raise"
    THEN Raise([cls |-> "Exception", msg |-> ErrorPrefix \o outcome.msg])
    ELSE IF outcome.text # <<>>
    THEN Return(strip(outcome.text))
    ELSE Return(FallbackSummary)

\* ------------------------------------------------- /ws: one message
SummaryError(text) == [type |-> "summary_error", error |-> text]
SummaryResult(summary, weather_id) ==
    [type |-> "summary_result", summary |-> summary, weather_id |-> weather_id]

\* The loop body from json.loads to the summary call: the handler raises
\* (nothing catches it), ignores the message, replies, or calls the provider.
Dispatch(data, storage) ==
    LET loaded == json_loads(data) IN
    IF loaded.kind = "raise"
    THEN [act |-> "crash", exc |-> "JSONDecodeError"]
    ELSE LET message == loaded.value IN
    IF message.t # "dict"
    THEN [act |-> "crash", exc |-> "AttributeError"]
    ELSE IF DictGet(message.d, "type", PyNone) # GenerateSummary
    THEN [act |-> "ignore"]
    ELSE LET weather_id == DictGet(message.d, "weather_id", PyNone)
             api_key    == DictGet(message.d, "api_key", PyNone)
         IN
    IF ~Truthy(api_key)
    THEN [act |-> "reply", message |-> SummaryError(<<"Gemini API key is required">>)]
    ELSE IF ~Hashable(weather_id)
    THEN [act |-> "crash", exc |-> "TypeError"]
    ELSE IF ~(weather_id.t = "str" /\ weather_id.s \in DOMAIN storage)
    THEN [act |-> "reply", message |-> SummaryError(<<"Weather data not found">>)]
    ELSE [act |-> "call", weather_id |-> weather_id.s]

\* The try/except around the summary call: the message sent for its result.
SummaryReply(result, weather_id) ==
    IF result.kind = "return"
    THEN SummaryResult(result.value, weather_id)
    ELSE SummaryError(StrOf(result.exc))

\* websocket.receive_text() taking the newest event instead of the oldest.
receive_text_Newest(queue) ==
    [item |-> queue[Len(queue)], rest |-> SubSeq(queue, 1, Len(queue) - 1)]

\* websocket.receive_text(): the oldest event the client sent.
receive_text(queue) == [item |-> Head(queue), rest |-> Tail(queue)]

\* Whether the message's weather_id names a record of the store.
NamesRecord(data, storage) ==
    /\ data.form = "json"
    /\ data.value.t = "dict"
    /\ "weather_id" \in DOMAIN data.value.d
    /\ data.value.d["weather_id"].t = "str"
    /\ data.value.d["weather_id"].s \in DOMAIN storage

Handling(item, storage, outcome, fatal) ==
    [n |-> item.n, data |-> item.data, in_store |-> NamesRecord(item.data, storage),
     outcome |-> outcome, fatal |-> fatal]

ClientGone(c) == \E i \in 1..Len(inbox[c]) : inbox[c][i] = DisconnectEvent

\* ConnectionManager.disconnect: list.remove of the first occurrence.
RECURSIVE Remove(_, _)
Remove(list, x) ==
    IF list = <<>> THEN <<>>
    ELSE IF Head(list) = x THEN Tail(list)
    ELSE <<Head(list)>> \o Remove(Tail(list), x)

\* ------------------------------------------------- actions
NoRequest == [method |-> "none"]

Init ==
    /\ weather_storage = EmptyDict
    /\ environ \in Environments
    /\ running = NoTask
    /\ events = 0
    /\ http_log = [req |-> NoRequest, outcome |-> NoOutcome]
    /\ issued = EmptyDict
    /\ active_connections = <<>>
    /\ session = [c \in Conns |-> "new"]
    /\ inbox = [c \in Conns |-> <<>>]
    /\ arrived = [c \in Conns |-> 0]
    /\ cur = [c \in Conns |-> NoItem]
    /\ done = [c \in Conns |-> <<>>]
    /\ last = [c \in Conns |-> NoHandling]
    /\ sent = [c \in Conns |-> <<>>]

\* The framework answers a POST: the response (logged with what the provider
\* did), and the id -> request pair
\* the client now holds if the response carries an id.
Answer(request, outcome, result) ==
    /\ http_log' = [req |-> [method |-> "POST", body |-> request],
                    outcome |-> outcome, resp |-> Response(result)]
    /\ issued' = IF result.kind = "return"
                 THEN (result.value.id :> request) @@ issued
                 ELSE issued

\* A POST /weather arrives and its handler runs up to the provider call:
\* without a credential it fails at once, else it enters requests.get, which
\* holds the event loop until it returns.
PostStart(request) ==
    /\ running = NoTask
    /\ events < MaxEvents
    /\ events' = events + 1
    /\ IF ~Truthy(getenv(environ, "WEATHERSTACK_API_KEY"))
       THEN /\ Answer(request, NoOutcome, Handled(Raise(HTTPException(500, ConfigErrorDetail))))
            /\ UNCHANGED running
       ELSE /\ running' = PostTask(request)
            /\ UNCHANGED http_vars
    /\ UNCHANGED <<weather_storage, environ, ws_vars>>

\* The provider call returns or raises and the handler runs to its end.
PostReturn(outcome, now) ==
    /\ running.kind = "post"
    /\ LET request == running.request
           ran == TryBody(weather_storage, request, outcome,
                          uuid4(Cardinality(DOMAIN issued)), now)
       IN
       /\ weather_storage' = ran.storage
       /\ Answer(request, outcome, Handled(ran.result))
    /\ running' = NoTask
    /\ UNCHANGED <<environ, events, ws_vars>>

\* GET /weather/{weather_id}: the handler has no await and runs in one go.
GetWeather(weather_id) ==
    /\ running = NoTask
    /\ events < MaxEvents
    /\ events' = events + 1
    /\ http_log' = [req |-> [method |-> "GET", weather_id |-> weather_id],
                    outcome |-> NoOutcome,
                    resp |-> Response(get_weather_data(weather_storage, weather_id))]
    /\ UNCHANGED <<weather_storage, environ, running, issued, ws_vars>>

\* A client opens /ws: manager.connect accepts and registers the socket.
WsConnect(c) ==
    /\ running = NoTask
    /\ session[c] = "new"
    /\ events < MaxEvents
    /\ events' = events + 1
    /\ session' = [session EXCEPT ![c] = "recv"]
    /\ active_connections' = Append(active_connections, c)
    /\ UNCHANGED <<weather_storage, environ, running, http_vars,
                   inbox, arrived, cur, done, last, sent>>

\* The client of an accepted connection sends a text message.
ClientSend(c, data) ==
    /\ session[c] \in {"recv", "calling"}
    /\ ~ClientGone(c)
    /\ events < MaxEvents
    /\ events' = events + 1
    /\ arrived' = [arrived EXCEPT ![c] = @ + 1]
    /\ inbox' = [inbox EXCEPT ![c] = Append(@, [n |-> arrived[c] + 1, data |-> data])]
    /\ UNCHANGED <<weather_storage, environ, running, http_vars,
                   active_connections, session, cur, done, last, sent>>

\* The client of an accepted connection closes it.
ClientDisconnect(c) ==
    /\ session[c] \in {"recv", "calling"}
    /\ ~ClientGone(c)
    /\ events < MaxEvents
    /\ events' = events + 1
    /\ inbox' = [inbox EXCEPT ![c] = Append(@, DisconnectEvent)]
    /\ UNCHANGED <<weather_storage, environ, running, http_vars,
                   active_connections, session, arrived, cur, done, last, sent>>

\* receive_text raises WebSocketDisconnect: manager.disconnect, session over.
WsDisconnected(c) ==
    /\ running = NoTask
    /\ session[c] = "recv"
    /\ inbox[c] # <<>>
    /\ receive_text(inbox[c]).item = DisconnectEvent
    /\ inbox' = [inbox EXCEPT ![c] = receive_text(@).rest]
    /\ session' = [session EXCEPT ![c] = "closed"]
    /\ active_connections' = Remove(active_connections, c)
    /\ UNCHANGED <<weather_storage, environ, running, events, http_vars,
                   arrived, cur, done, last, sent>>

\* One turn of the while loop: receive_text returns a message and the handler
\* runs until it is back at receive_text, has raised, or is inside the
\* summary call (generate_content blocks the event loop until it returns).
WsReceive(c) ==
    /\ running = NoTask
    /\ session[c] = "recv"
    /\ inbox[c] # <<>>
    /\ LET got  == receive_text(inbox[c])
           item == got.item
           step == Dispatch(item.data, weather_storage)
       IN
       /\ item # DisconnectEvent
       /\ inbox' = [inbox EXCEPT ![c] = got.rest]
       /\ CASE step.act = "crash" ->
                 /\ session' = [session EXCEPT ![c] = "crashed"]
                 /\ done' = [done EXCEPT ![c] = Append(@, item.n)]
                 /\ last' = [last EXCEPT ![c] =
                        Handling(item, weather_storage, NoOutcome, step.exc)]
                 /\ UNCHANGED <<running, cur, sent>>
            [] step.act = "ignore" ->
                 /\ done' = [done EXCEPT ![c] = Append(@, item.n)]
                 /\ last' = [last EXCEPT ![c] =
                        Handling(item, weather_storage, NoOutcome, "")]
                 /\ UNCHANGED <<running, session, cur, sent>>
            [] step.act = "reply" ->
                 /\ sent' = [sent EXCEPT ![c] =
                        Append(@, [re |-> item.n, data |-> json_dumps(step.message)])]
                 /\ done' = [done EXCEPT ![c] = Append(@, item.n)]
                 /\ last' = [last EXCEPT ![c] =
                        Handling(item, weather_storage, NoOutcome, "")]
                 /\ UNCHANGED <<running, session, cur>>
            [] step.act = "call" ->
                 /\ session' = [session EXCEPT ![c] = "calling"]
                 /\ cur' = [cur EXCEPT ![c] = item]
                 /\ running' = ConnTask(c)
                 /\ UNCHANGED <<done, last, sent>>
    /\ UNCHANGED <<weather_storage, environ, events, http_vars,
                   active_connections, arrived>>

\* The summary call returns or raises; the handler sends the result or the
\* error and goes back to receive_text.
WsSummaryReturn(c, outcome) ==
    /\ running = ConnTask(c)
    /\ session[c] = "calling"
    /\ LET item       == cur[c]
           weather_id == item.data.value.d["weather_id"].s
           message    == SummaryReply(generate_weather_summary(outcome), weather_id)
       IN
       /\ sent' = [sent EXCEPT ![c] = Append(@, [re |-> item.n, data |-> json_dumps(message)])]
       /\ done' = [done EXCEPT ![c] = Append(@, item.n)]
       /\ last' = [last EXCEPT ![c] = Handling(item, weather_storage, outcome, "")]
    /\ cur' = [cur EXCEPT ![c] = NoItem]
    /\ session' = [session EXCEPT ![c] = "recv"]
    /\ running' = NoTask
    /\ UNCHANGED <<weather_storage, environ, events, http_vars,
                   active_connections, inbox, arrived>>

Next ==
    \/ \E q \in Requests : PostStart(q)
    \/ \E o \in ProviderOutcomes, now \in Timestamps : PostReturn(o, now)
    \/ \E id \in IdStrings : GetWeather(id)
    \/ \E c \in Conns : WsConnect(c)
    \/ \E c \in Conns, d \in ClientData : ClientSend(c, d)
    \/ \E c \in Conns : ClientDisconnect(c)
    \/ \E c \in Conns : WsDisconnected(c)
    \/ \E c \in Conns : WsReceive(c)
    \/ \E c \in Conns, o \in GenOutcomes : WsSummaryReturn(c, o)

Spec == Init /\ [][Next]_vars

\* ------------------------------------------------- properties
\* The indices of the messages sent on c in reply to its n-th message.
RepliesTo(c, n) == {i \in 1..Len(sent[c]) : sent[c][i].re = n}
Message(c, i) == sent[c][i].data.value

Contains(text, part) ==
    \E i \in 1..(Len(text) + 1) :
        /\ i + Len(part) - 1 <= Len(text)
        /\ SubSeq(text, i, i + Len(part) - 1) = part

\* The last handled message of c is a generate_summary request with a
\* non-empty api_key.
KeyedRequest(c) ==
    /\ last[c].n > 0
    /\ last[c].data.form = "json"
    /\ last[c].data.value.t = "dict"
    /\ DictGet(last[c].data.value.d, "type", PyNone) = GenerateSummary
    /\ Truthy(DictGet(last[c].data.value.d, "api_key", PyNone))

PostLogged == http_log.req.method = "POST"
TimedOut(outcome) ==
    outcome.kind = "raise" /\ outcome.cls \in {"ReadTimeout", "ConnectTimeout"}
Reported615(outcome) ==
    /\ outcome.kind = "response"
    /\ outcome.status_code = 200
    /\ "error" \in DOMAIN outcome.body
    /\ outcome.body["error"].code = 615

\* C1: every id a successful POST /weather returned resolves through
\* GET /weather/{id}, in every later state, to a record whose date, location
\* and notes are that POST's input.
C1_IssuedIdResolvesVerbatim ==
    \A id \in DOMAIN issued :
        LET got == Response(get_weather_data(weather_storage, id)) IN
        /\ got.status_code = 200
        /\ got.body.date = issued[id].date
        /\ got.body.location = issued[id].location
        /\ got.body.notes = issued[id].notes

\* C1 witness: two creations with different input succeeded and a later GET
\* of the first id was answered with its record.
C1_Witness ==
    /\ Cardinality(DOMAIN issued) = 2
    /\ issued[UUIDNames[1]] # issued[UUIDNames[2]]
    /\ http_log.req.method = "GET"
    /\ http_log.req.weather_id = UUIDNames[1]
    /\ http_log.resp.status_code = 200
    /\ http_log.resp.body.location = issued[UUIDNames[1]].location

\* C2: a POST /weather for which the provider reported error code 615 is
\* answered with status 400 and a text naming the requested location.
C2_Code615Answered400 ==
    (PostLogged /\ Reported615(http_log.outcome)) =>
        /\ http_log.resp.status_code = 400
        /\ Contains(http_log.resp.detail, <<http_log.req.body.location>>)

\* C3: a step adds exactly one record to the store if it ends a POST /weather
\* with success and leaves the store as it was otherwise, and every stored
\* record has all seven fields.
C3_Step ==
    LET succeeded == /\ running.kind = "post"
                     /\ running'.kind = "none"
                     /\ http_log'.resp.status_code = 200
    IN  /\ \A k \in DOMAIN weather_storage :
              k \in DOMAIN weather_storage' /\ weather_storage'[k] = weather_storage[k]
        /\ Cardinality(DOMAIN weather_storage') =
              Cardinality(DOMAIN weather_storage) + (IF succeeded THEN 1 ELSE 0)
        /\ \A k \in DOMAIN weather_storage' : DOMAIN weather_storage'[k] = RecordFields
C3_OneRecordPerSuccess == [][C3_Step]_vars

\* C3 witness: with a record already stored, a POST failed on a
\* provider-reported error.
C3_Witness ==
    /\ PostLogged
    /\ http_log.outcome.kind = "response"
    /\ http_log.resp.status_code # 200
    /\ Cardinality(DOMAIN weather_storage) = 1

\* C4: no content of a received message makes the server end a /ws session.
C4_ContentNeverEndsSession ==
    \A c \in Conns : session[c] # "crashed"

\* C5 as claimed: empty provider output for a stored record is answered with
\* one summary_error carrying the fallback phrase.
C5_EmptyOutputIsError ==
    \A c \in Conns :
        (last[c].n > 0 /\ last[c].outcome = [kind |-> "text", text |-> <<>>]) =>
            /\ Cardinality(RepliesTo(c, last[c].n)) = 1
            /\ \A i \in RepliesTo(c, last[c].n) :
                   Message(c, i) = SummaryError(FallbackSummary)

\* C5 as amended: empty provider text for a stored record is answered with
\* exactly one message, a summary_result whose summary is the fallback phrase
\* and whose weather_id is the request's, and the session goes on.
C5_EmptyOutputIsFallbackResult ==
    \A c \in Conns :
        (last[c].n > 0 /\ last[c].outcome = [kind |-> "text", text |-> <<>>]) =>
            /\ Cardinality(RepliesTo(c, last[c].n)) = 1
            /\ \A i \in RepliesTo(c, last[c].n) :
                   Message(c, i) = SummaryResult(FallbackSummary,
                                       last[c].data.value.d["weather_id"].s)
            /\ session[c] # "crashed"

\* C5 witness: a summary call on a stored record returned the empty text and
\* was answered.
C5_Witness ==
    \E c \in Conns :
        /\ last[c].n > 0
        /\ last[c].in_store
        /\ last[c].outcome = [kind |-> "text", text |-> <<>>]
        /\ RepliesTo(c, last[c].n) # {}

\* C6: a keyed generate_summary for a stored record whose text-generation
\* call raises is answered with exactly one message, a summary_error whose
\* text contains the provider's failure text, and the session goes on.
C6_RaisedCallIsOneError ==
    \A c \in Conns :
        (KeyedRequest(c) /\ last[c].in_store /\ last[c].outcome.kind = "raise") =>
            /\ Cardinality(RepliesTo(c, last[c].n)) = 1
            /\ \A i \in RepliesTo(c, last[c].n) :
                   /\ Message(c, i).type = "summary_error"
                   /\ Contains(Message(c, i).error, last[c].outcome.msg)
            /\ session[c] # "crashed"

\* C6 witness: a summary call on a stored record raised and was answered.
C6_Witness ==
    \E c \in Conns :
        /\ KeyedRequest(c)
        /\ last[c].in_store
        /\ last[c].outcome.kind = "raise"
        /\ RepliesTo(c, last[c].n) # {}

\* C7: a keyed generate_summary whose weather_id is no key of the store is
\* answered with exactly one summary_error, without a text-generation call,
\* and the session goes on.
C7_UnknownIdIsOneError ==
    \A c \in Conns :
        (KeyedRequest(c) /\ ~last[c].in_store) =>
            /\ Cardinality(RepliesTo(c, last[c].n)) = 1
            /\ \A i \in RepliesTo(c, last[c].n) : Message(c, i).type = "summary_error"
            /\ last[c].outcome = NoOutcome
            /\ session[c] # "crashed"

\* C8: while a handler is inside a provider call, a GET /weather/{id} can
\* be handled and every other session with a message waiting can handle it.
C8_ProviderCallNeverBlocks ==
    running # NoTask =>
        /\ events < MaxEvents => ENABLED GetWeather(NoSuchId)
        /\ \A c \in Conns :
               (running # ConnTask(c) /\ session[c] = "recv" /\ inbox[c] # <<>>) =>
                   ENABLED (WsReceive(c) \/ WsDisconnected(c))

\* C9: a POST /weather is answered with 408 exactly when its provider call
\* timed out.
C9_TimeoutIffStatus408 ==
    PostLogged => (TimedOut(http_log.outcome) <=> http_log.resp.status_code = 408)

\* C9 witness: a provider call that timed out while connecting was answered.
C9_Witness ==
    /\ PostLogged
    /\ http_log.outcome = [kind |-> "raise", cls |-> "ConnectTimeout"]
    /\ http_log.resp.status_code = 408

\* C10: on one connection the messages are handled one at a time in arrival
\* order: a message is taken up only after the one before it is done, a call
\* in flight belongs to the next message in line, and the replies sent are in
\* the order of the requests, none for a message not yet taken up.
C10_SerializedInArrivalOrder ==
    \A c \in Conns :
        /\ \A k \in 1..Len(done[c]) : done[c][k] = k
        /\ (cur[c] # NoItem) <=> (session[c] = "calling")
        /\ cur[c] # NoItem => cur[c].n = Len(done[c]) + 1
        /\ \A i, j \in 1..Len(sent[c]) : i < j => sent[c][i].re < sent[c][j].re
        /\ \A i \in 1..Len(sent[c]) : sent[c][i].re <= Len(done[c])

\* C10 witness: a connection got the result of a summary call and then the
\* reply to its next message.
C10_Witness ==
    \E c \in Conns :
        /\ Len(sent[c]) = 2
        /\ Message(c, 1).type = "summary_result"
        /\ sent[c][1].re = 1
        /\ sent[c][2].re = 2

====
